---- MODULE Spec2Model ----
(***************************************************************************)
(* A model of the Battlesnake rules engine of this repository: the Solo    *)
(* and Squad rulesets (solo.go; the squad ruleset is found in              *)
(* cli/battlesnake/main.go), their game-over stages, the two               *)
(* squad stages (collision resurrection and attribute sharing), the        *)
(* pipeline that runs the stages on a working copy of the board, and the   *)
(* turn step of the command-line driver (cli/commands/play.go).            *)
(*                                                                         *)
(* Boards live on a heap of board objects so that "mutates in place" and   *)
(* "works on a copy" are different things in the model, as they are in Go. *)
(***************************************************************************)
EXTENDS Integers, Sequences, FiniteSets, TLC

VARIABLES
    heap,        \* Ref -> BoardState: the board objects
    boardState,  \* the pointer the caller holds to its current board
    prevState,   \* the pointer passed to the last CreateNextBoardState (Nil if none)
    entry,       \* the board heap[boardState] as it was when the last operation began
    settings,    \* the Settings value of the ruleset, handed to every stage
    moves,       \* the move list handed to the last operation
    op,          \* the last operation that ran
    ret,         \* what it returned
    ruleset,     \* "solo" or "squad"
    snakeStates, \* the driver's per-snake state: ID -> [LastMove]
    stagesRun,   \* the stages the last pipeline run called, in order: [name, err, snakes]
    driver,      \* where GameState.Run stands: its position, locals and history
    registry     \* the process-wide stage registry: stage name -> stage function

vars == <<heap, boardState, prevState, entry, settings, moves, op, ret, ruleset, snakeStates,
          stagesRun, driver, registry>>

----------------------------------------------------------------------------
(* Bounds of the model *)

MaxRoster == 3        \* snakes on a board given to a game-over stage
MaxStageSnakes == 2   \* snakes on a board given to a squad stage
MaxTurnSnakes == 2    \* snakes on a board given to CreateNextBoardState
MaxRunSnakes == 2     \* snakes of a game the driver runs
MaxTurns == 2         \* turns the driver plays before the model stops following it
BoardWidth == 3       \* the board of the turn specification (--width)
BoardHeight == 3      \* (--height)

----------------------------------------------------------------------------
(* Data model *)

NotEliminated == ""
EliminatedByCollision == "snake-collision"
EliminatedBySelfCollision == "snake-self-collision"
EliminatedByOutOfHealth == "out-of-health"
EliminatedByHeadToHeadCollision == "head-collision"
EliminatedByOutOfBounds == "wall-collision"
EliminatedBySquad == "squad-eliminated"

Causes == {NotEliminated, EliminatedByCollision, EliminatedBySelfCollision,
           EliminatedByOutOfHealth, EliminatedByHeadToHeadCollision,
           EliminatedByOutOfBounds, EliminatedBySquad}

SnakeMaxHealth == 100

Nil == 0
Refs == {1, 2}

AllIDs == <<"a", "b", "c", "d", "e">>

\* the first n snake IDs
IDsUpTo(n) == {AllIDs[i] : i \in 1..n}

Point(x, y) == [X |-> x, Y |-> y]

Snake(id, body, health, cause, by, onTurn) ==
    [ID |-> id, Body |-> body, Health |-> health, EliminatedCause |-> cause,
     EliminatedBy |-> by, EliminatedOnTurn |-> onTurn]

BoardState(turn, snakes, food, hazards) ==
    [Turn |-> turn, Snakes |-> snakes, Food |-> food, Hazards |-> hazards,
     Width |-> BoardWidth, Height |-> BoardHeight]

SquadSettings(m, abc, se, sh, sl) ==
    [squadMap |-> m, AllowBodyCollisions |-> abc, SharedElimination |-> se,
     SharedHealth |-> sh, SharedLength |-> sl]

Settings(chance, minFood, damage, squad) ==
    [FoodSpawnChance |-> chance, MinimumFood |-> minFood,
     HazardDamagePerTurn |-> damage, SquadSettings |-> squad]

\* a Go map read: the zero value "" for a key that is absent
MapGet(m, k) == IF k \in DOMAIN m THEN m[k] ELSE ""

\* what a stage function leaves behind: the board it mutated and its two results
StageResult(b, term, err) == [b |-> b, term |-> term, err |-> err]

Alive(s) == s.EliminatedCause = NotEliminated

----------------------------------------------------------------------------
(* solo.go *)

RECURSIVE GameOverSoloLoop(_, _)
GameOverSoloLoop(b, i) ==
    IF i > Len(b.Snakes) THEN TRUE
    ELSE IF b.Snakes[i].EliminatedCause = NotEliminated THEN FALSE
    ELSE GameOverSoloLoop(b, i + 1)

GameOverSoloAny(b, st, mv) ==
    StageResult(b, \E i \in 1..Len(b.Snakes) : ~Alive(b.Snakes[i]), FALSE)

GameOverSolo(b, st, mv) == StageResult(b, GameOverSoloLoop(b, 1), FALSE)

----------------------------------------------------------------------------
(* The squad ruleset: cli/battlesnake/main.go, from line 52 *)

\* a faulty variant: only IDs the map holds can be on the same squad
areSnakeIDsBothAssigned(squadMap, snakeID, otherID) ==
    /\ snakeID \in DOMAIN squadMap
    /\ otherID \in DOMAIN squadMap
    /\ squadMap[snakeID] = squadMap[otherID]

areSnakeIDsOnSameSquad(squadMap, snakeID, otherID) ==
    MapGet(squadMap, snakeID) = MapGet(squadMap, otherID)

areSnakesOnSameSquad(squadMap, snake, other) ==
    areSnakeIDsOnSameSquad(squadMap, snake.ID, other.ID)

RECURSIVE GameOverSquadLoop(_, _, _)
GameOverSquadLoop(squadMap, snakesRemaining, i) ==
    IF i > Len(snakesRemaining) THEN TRUE
    ELSE IF ~areSnakesOnSameSquad(squadMap, snakesRemaining[i], snakesRemaining[1])
         THEN FALSE
    ELSE GameOverSquadLoop(squadMap, snakesRemaining, i + 1)

GameOverSquadFirstOnBoard(b, st, mv) ==
    StageResult(b,
        \A i \in 1..Len(b.Snakes) :
            Alive(b.Snakes[i]) =>
                areSnakesOnSameSquad(st.SquadSettings.squadMap, b.Snakes[i], b.Snakes[1]),
        FALSE)

GameOverSquad(b, st, mv) ==
    LET snakesRemaining == SelectSeq(b.Snakes, Alive)
    IN StageResult(b, GameOverSquadLoop(st.SquadSettings.squadMap, snakesRemaining, 1), FALSE)

\* the initialisation call of a stage: the turn has not advanced and no moves are given
IsInitialisation(b, st, mv) == b.Turn <= 0 /\ Len(mv) = 0

\* faulty variants of the resurrection stage
RECURSIVE ResurrectLoopSkipsFault(_, _, _)
ResurrectLoopSkipsFault(snakes, squadMap, i) ==
    IF i > Len(snakes) THEN [snakes |-> snakes, err |-> FALSE]
    ELSE LET snake == snakes[i] IN
         IF /\ snake.EliminatedCause = EliminatedByCollision
            /\ snake.EliminatedBy # ""
            /\ snake.ID # snake.EliminatedBy
            /\ areSnakeIDsOnSameSquad(squadMap, snake.ID, snake.EliminatedBy)
         THEN ResurrectLoopSkipsFault(
                  [snakes EXCEPT ![i].EliminatedCause = NotEliminated,
                                 ![i].EliminatedBy = ""],
                  squadMap, i + 1)
         ELSE ResurrectLoopSkipsFault(snakes, squadMap, i + 1)

RECURSIVE ResurrectLoopAnySquad(_, _, _)
ResurrectLoopAnySquad(snakes, squadMap, i) ==
    IF i > Len(snakes) THEN [snakes |-> snakes, err |-> FALSE]
    ELSE LET snake == snakes[i] IN
         IF snake.EliminatedCause = EliminatedByCollision
         THEN IF snake.EliminatedBy = ""
              THEN [snakes |-> snakes, err |-> TRUE]
              ELSE IF snake.ID # snake.EliminatedBy
                   THEN ResurrectLoopAnySquad(
                            [snakes EXCEPT ![i].EliminatedCause = NotEliminated,
                                           ![i].EliminatedBy = ""],
                            squadMap, i + 1)
                   ELSE ResurrectLoopAnySquad(snakes, squadMap, i + 1)
         ELSE ResurrectLoopAnySquad(snakes, squadMap, i + 1)

\* a faulty variant: a resurrected snake is reset as a whole, its EliminatedOnTurn too
RECURSIVE ResurrectLoopClearsTurn(_, _, _)
ResurrectLoopClearsTurn(snakes, squadMap, i) ==
    IF i > Len(snakes) THEN [snakes |-> snakes, err |-> FALSE]
    ELSE LET snake == snakes[i] IN
         IF snake.EliminatedCause = EliminatedByCollision
         THEN IF snake.EliminatedBy = ""
              THEN [snakes |-> snakes, err |-> TRUE]
              ELSE IF snake.ID # snake.EliminatedBy
                      /\ areSnakeIDsOnSameSquad(squadMap, snake.ID, snake.EliminatedBy)
                   THEN ResurrectLoopClearsTurn(
                            [snakes EXCEPT ![i].EliminatedCause = NotEliminated,
                                           ![i].EliminatedBy = "",
                                           ![i].EliminatedOnTurn = 0],
                            squadMap, i + 1)
                   ELSE ResurrectLoopClearsTurn(snakes, squadMap, i + 1)
         ELSE ResurrectLoopClearsTurn(snakes, squadMap, i + 1)

\* lines 112-123: the loop over b.Snakes from index i on; stops at the first fault
RECURSIVE ResurrectLoop(_, _, _)
ResurrectLoop(snakes, squadMap, i) ==
    IF i > Len(snakes) THEN [snakes |-> snakes, err |-> FALSE]
    ELSE LET snake == snakes[i] IN
         IF snake.EliminatedCause = EliminatedByCollision
         THEN IF snake.EliminatedBy = ""
              THEN [snakes |-> snakes, err |-> TRUE]
              ELSE IF snake.ID # snake.EliminatedBy
                      /\ areSnakeIDsOnSameSquad(squadMap, snake.ID, snake.EliminatedBy)
                   THEN ResurrectLoop(
                            [snakes EXCEPT ![i].EliminatedCause = NotEliminated,
                                           ![i].EliminatedBy = ""],
                            squadMap, i + 1)
                   ELSE ResurrectLoop(snakes, squadMap, i + 1)
         ELSE ResurrectLoop(snakes, squadMap, i + 1)

ResurrectIgnoringFlag(b, st, mv) ==
    IF IsInitialisation(b, st, mv) THEN StageResult(b, FALSE, FALSE)
    ELSE LET r == ResurrectLoop(b.Snakes, st.SquadSettings.squadMap, 1)
         IN StageResult([b EXCEPT !.Snakes = r.snakes], FALSE, r.err)

ResurrectSnakesSquad(b, st, mv) ==
    IF IsInitialisation(b, st, mv) THEN StageResult(b, FALSE, FALSE)
    ELSE IF ~st.SquadSettings.AllowBodyCollisions THEN StageResult(b, FALSE, FALSE)
    ELSE LET r == ResurrectLoop(b.Snakes, st.SquadSettings.squadMap, 1)
         IN StageResult([b EXCEPT !.Snakes = r.snakes], FALSE, r.err)

\* appends a copy of the tail segment
growSnake(snake) ==
    IF Len(snake.Body) > 0
    THEN [snake EXCEPT !.Body = Append(snake.Body, snake.Body[Len(snake.Body)])]
    ELSE snake

\* faulty variants of the sharing stage
GrowOnce(snake, n) ==
    IF Len(snake.Body) < n THEN growSnake(snake) ELSE snake

\* line 156-158: for len(snake.Body) < len(other.Body) { growSnake(snake) }
RECURSIVE GrowTo(_, _)
GrowTo(snake, n) ==
    IF Len(snake.Body) < n THEN GrowTo(growSnake(snake), n) ELSE snake

\* a shared elimination that names the squad-mate as the culprit
SharePairNamesCulprit(snake, other, sq) ==
    LET h == IF sq.SharedHealth /\ snake.Health < other.Health
             THEN [snake EXCEPT !.Health = other.Health]
             ELSE snake
        zero == sq.SharedLength /\ (Len(h.Body) = 0 \/ Len(other.Body) = 0)
        l == IF sq.SharedLength /\ ~zero THEN GrowTo(h, Len(other.Body)) ELSE h
        e == IF sq.SharedElimination
                /\ l.EliminatedCause = NotEliminated
                /\ other.EliminatedCause # NotEliminated
             THEN [l EXCEPT !.EliminatedCause = EliminatedBySquad, !.EliminatedBy = other.ID]
             ELSE l
    IN IF zero THEN [snake |-> h, err |-> TRUE] ELSE [snake |-> e, err |-> FALSE]

\* a length check that looks at the snake's own body only
SharePairChecksOwnBody(snake, other, sq) ==
    LET h == IF sq.SharedHealth /\ snake.Health < other.Health
             THEN [snake EXCEPT !.Health = other.Health]
             ELSE snake
        zero == sq.SharedLength /\ Len(h.Body) = 0
        l == IF sq.SharedLength /\ ~zero THEN GrowTo(h, Len(other.Body)) ELSE h
        e == IF sq.SharedElimination
                /\ l.EliminatedCause = NotEliminated
                /\ other.EliminatedCause # NotEliminated
             THEN [l EXCEPT !.EliminatedCause = EliminatedBySquad, !.EliminatedBy = ""]
             ELSE l
    IN IF zero THEN [snake |-> h, err |-> TRUE] ELSE [snake |-> e, err |-> FALSE]

\* lines 147-166: what one (snake, other) pair does to snake; other is read only
SharePair(snake, other, sq) ==
    LET h == IF sq.SharedHealth /\ snake.Health < other.Health
             THEN [snake EXCEPT !.Health = other.Health]
             ELSE snake
        zero == sq.SharedLength /\ (Len(h.Body) = 0 \/ Len(other.Body) = 0)
        l == IF sq.SharedLength /\ ~zero THEN GrowTo(h, Len(other.Body)) ELSE h
        e == IF sq.SharedElimination
                /\ l.EliminatedCause = NotEliminated
                /\ other.EliminatedCause # NotEliminated
             THEN [l EXCEPT !.EliminatedCause = EliminatedBySquad, !.EliminatedBy = ""]
             ELSE l
    IN IF zero THEN [snake |-> h, err |-> TRUE] ELSE [snake |-> e, err |-> FALSE]

\* lines 144-168: the inner loop over other = b.Snakes[j] for the snake at index i
RECURSIVE ShareInner(_, _, _, _)
ShareInner(snakes, sq, i, j) ==
    IF j > Len(snakes) THEN [snakes |-> snakes, err |-> FALSE]
    ELSE IF areSnakesOnSameSquad(sq.squadMap, snakes[i], snakes[j])
         THEN LET r == SharePair(snakes[i], snakes[j], sq)
                  next == [snakes EXCEPT ![i] = r.snake]
              IN IF r.err THEN [snakes |-> next, err |-> TRUE]
                 ELSE ShareInner(next, sq, i, j + 1)
         ELSE ShareInner(snakes, sq, i, j + 1)

\* an outer loop that does not pass over the eliminated snakes
RECURSIVE ShareOuterNoSkip(_, _, _)
ShareOuterNoSkip(snakes, sq, i) ==
    IF i > Len(snakes) THEN [snakes |-> snakes, err |-> FALSE]
    ELSE LET r == ShareInner(snakes, sq, i, 1)
         IN IF r.err THEN r ELSE ShareOuterNoSkip(r.snakes, sq, i + 1)

\* lines 138-169: the outer loop over snake = b.Snakes[i]
RECURSIVE ShareOuter(_, _, _)
ShareOuter(snakes, sq, i) ==
    IF i > Len(snakes) THEN [snakes |-> snakes, err |-> FALSE]
    ELSE IF snakes[i].EliminatedCause # NotEliminated THEN ShareOuter(snakes, sq, i + 1)
    ELSE LET r == ShareInner(snakes, sq, i, 1)
         IN IF r.err THEN r ELSE ShareOuter(r.snakes, sq, i + 1)

ShareWithoutInitialisationCheck(b, st, mv) ==
    LET squadSettings == st.SquadSettings IN
    IF ~(squadSettings.SharedElimination \/ squadSettings.SharedLength
           \/ squadSettings.SharedHealth)
    THEN StageResult(b, FALSE, FALSE)
    ELSE LET r == ShareOuter(b.Snakes, squadSettings, 1)
         IN StageResult([b EXCEPT !.Snakes = r.snakes], FALSE, r.err)

ShareAttributesSquad(b, st, mv) ==
    IF IsInitialisation(b, st, mv) THEN StageResult(b, FALSE, FALSE)
    ELSE LET squadSettings == st.SquadSettings IN
         IF ~(squadSettings.SharedElimination \/ squadSettings.SharedLength
                \/ squadSettings.SharedHealth)
         THEN StageResult(b, FALSE, FALSE)
         ELSE LET r == ShareOuter(b.Snakes, squadSettings, 1)
              IN StageResult([b EXCEPT !.Snakes = r.snakes], FALSE, r.err)

\* IsGameOver of the two rulesets: the game-over stage with an empty move list
IsGameOver(rs, b, st) ==
    IF rs = "solo" THEN GameOverSolo(b, st, <<>>) ELSE GameOverSquad(b, st, <<>>)

----------------------------------------------------------------------------
(* Inputs of the stage-level specifications *)

SquadNames == {"red", "blue"}

\* every squad map over the given IDs: each ID is on one of the squads or absent
SquadMapsOver(ids) ==
    {[id \in {x \in ids : f[x] # "-"} |-> f[id]] : f \in [ids -> SquadNames \cup {"-"}]}

DefaultSettings(squad) == Settings(0, 0, 0, squad)

\* the settings of a ruleset built without squads
NoSquads == SquadSettings(<<>>, FALSE, FALSE, FALSE, FALSE)

RosterIDs(b) == {b.Snakes[i].ID : i \in 1..Len(b.Snakes)}

\* the move lists a stage is called with: none (as IsGameOver and the first call do) or some
StageMoves == {<<>>, <<[ID |-> AllIDs[1], Move |-> "up"]>>}

NoResult == [term |-> FALSE, err |-> FALSE]

EmptyBoard == BoardState(0, <<>>, {}, <<>>)

InitialSnakeStates(b) ==
    [id \in {b.Snakes[i].ID : i \in 1..Len(b.Snakes)} |-> [LastMove |-> "up"]]

\* the process-wide registry with every stage registered: stage name -> stage function
StageRegistry ==
    [n \in {"movement.standard", "snake.movement.standard"} |-> "movement"]
    @@ [n \in {"reducehealth.standard", "health.reduce.standard"} |-> "reducehealth"]
    @@ [n \in {"hazarddamage.standard", "hazard.damage.standard"} |-> "hazarddamage"]
    @@ [n \in {"eatfood.standard", "snake.eatfood.standard"} |-> "eatfood"]
    @@ [n \in {"placefood.standard", "food.spawn.standard"} |-> "placefood"]
    @@ [n \in {"eliminatesnake.standard", "snake.eliminate.standard"} |-> "eliminate"]
    @@ [n \in {"snake.collision.squad"} |-> "collision.squad"]
    @@ [n \in {"snake.share.squad"} |-> "share.squad"]
    @@ [n \in {"gameover.solo"} |-> "gameover.solo"]
    @@ [n \in {"gameover.squad"} |-> "gameover.squad"]

\* the driver when the game loop is not what runs
NotRunning == [pc |-> "none"]

\* a registry in which the squad sharing stage was not registered
RegistryWithoutSharing ==
    [n \in DOMAIN StageRegistry \ {"snake.share.squad"} |-> StageRegistry[n]]

\* what the registry may hold once the process has started
Registries == {StageRegistry, RegistryWithoutSharing}

\* the state before any operation: one board object, held by the caller
StartWithRegistry(b, st, rs, reg) ==
    /\ heap = [r \in Refs |-> IF r = 1 THEN b ELSE EmptyBoard]
    /\ boardState = 1
    /\ prevState = Nil
    /\ entry = b
    /\ settings = st
    /\ moves = <<>>
    /\ op = "init"
    /\ ret = NoResult
    /\ ruleset = rs
    /\ snakeStates = InitialSnakeStates(b)
    /\ stagesRun = <<>>
    /\ driver = NotRunning
    /\ registry = reg

StartWith(b, st, rs) == StartWithRegistry(b, st, rs, StageRegistry)

\* a stage function called on the caller's board: it mutates that board in place
CallStage(name, r, st, mv) ==
    /\ entry' = heap[boardState]
    /\ heap' = [heap EXCEPT ![boardState] = r.b]
    /\ settings' = st
    /\ moves' = mv
    /\ op' = name
    /\ ret' = [term |-> r.term, err |-> r.err]
    /\ UNCHANGED <<boardState, prevState, ruleset, snakeStates, stagesRun, driver, registry>>

----------------------------------------------------------------------------
(* The game-over stages on every small board *)

GameOverCauses == {NotEliminated, EliminatedByCollision, EliminatedByOutOfHealth,
                   EliminatedBySquad}

GameOverBoards(max) ==
    UNION {
        {BoardState(t, [i \in 1..n |-> Snake(AllIDs[i], <<Point(i, 0)>>, 50, c[i], "", 0)], {}, <<>>) :
            c \in [1..n -> GameOverCauses], t \in {0, 1}}
        : n \in 0..max}

InitGameOver == \E b \in GameOverBoards(MaxRoster) : StartWith(b, DefaultSettings(NoSquads), "squad")

\* the settings the game-over stages are called with: every squad map over the roster
GameOverSettings(b) ==
    {DefaultSettings(SquadSettings(m, FALSE, FALSE, FALSE, FALSE)) :
        m \in SquadMapsOver(RosterIDs(b))}

CallGameOverSolo ==
    /\ op = "init"
    /\ \E st \in GameOverSettings(heap[boardState]), mv \in StageMoves :
        CallStage("GameOverSolo", GameOverSolo(heap[boardState], st, mv), st, mv)

CallGameOverSquad ==
    /\ op = "init"
    /\ \E st \in GameOverSettings(heap[boardState]), mv \in StageMoves :
        CallStage("GameOverSquad", GameOverSquad(heap[boardState], st, mv), st, mv)

NextGameOver == CallGameOverSolo \/ CallGameOverSquad

SpecGameOver == InitGameOver /\ [][NextGameOver]_vars

\* the indices of the snakes of b that are not eliminated
Living(b) == {i \in 1..Len(b.Snakes) : b.Snakes[i].EliminatedCause = NotEliminated}

\* the first of them in board order
FirstLiving(b) == CHOOSE i \in Living(b) : \A j \in Living(b) : i <= j

SquadOf(st, snake) == MapGet(st.SquadSettings.squadMap, snake.ID)

\* C1: GameOverSolo returns no error, and returns true exactly when every snake of
\* the board is eliminated: true for an empty roster, false as soon as one snake is
\* NotEliminated.
C1_SoloGameOver ==
    op = "GameOverSolo" =>
        /\ ret.err = FALSE
        /\ ret.term = TRUE <=> Living(entry) = {}
        /\ Len(entry.Snakes) = 0 => ret.term = TRUE

\* C1 witness: a board with an eliminated snake and a living one is reported not over
C1_Witness ==
    /\ op = "GameOverSolo"
    /\ Living(entry) # {}
    /\ \E i \in 1..Len(entry.Snakes) : i \notin Living(entry)
    /\ ret.term = FALSE

\* C2: GameOverSquad returns true exactly when no snake is NotEliminated or every
\* NotEliminated snake has the squad ID of the first NotEliminated snake in board order.
C2_SquadGameOver ==
    op = "GameOverSquad" =>
        /\ ret.err = FALSE
        /\ ret.term = TRUE <=>
              \/ Living(entry) = {}
              \/ \A i \in Living(entry) :
                    SquadOf(settings, entry.Snakes[i])
                        = SquadOf(settings, entry.Snakes[FirstLiving(entry)])

\* C2 witness: two living snakes on squad red, the only blue snake eliminated: over
C2_Witness ==
    /\ op = "GameOverSquad"
    /\ Len(entry.Snakes) = 3
    /\ Cardinality(Living(entry)) = 2
    /\ \A i \in Living(entry) : SquadOf(settings, entry.Snakes[i]) = "red"
    /\ \E i \in 1..3 : i \notin Living(entry) /\ SquadOf(settings, entry.Snakes[i]) = "blue"
    /\ ret.term = TRUE

----------------------------------------------------------------------------
(* The squad collision resurrection stage on every small board *)

\* a snake of a stage board: a living snake names no culprit
StageSnakes(id, bodies, healths, causes, culprits) ==
    {Snake(id, body, h, NotEliminated, "", 0) :
        body \in bodies, h \in healths}
    \cup {Snake(id, body, h, c, by, 1) :
        body \in bodies, h \in healths, c \in causes \ {NotEliminated}, by \in culprits}

\* the squad maps of the stage boards: every listed snake is on a squad, or none is
StageSquadMaps(ids) == [ids -> SquadNames] \cup {<<>>}

\* the sequences of length n whose i-th element is drawn from choices[i]
RECURSIVE Rosters(_, _)
Rosters(choices, n) ==
    IF n = 0 THEN {<<>>}
    ELSE {Append(q, x) : q \in Rosters(choices, n - 1), x \in choices[n]}

ResurrectBoards(max) ==
    UNION {
        {BoardState(t, sn, {Point(1, 1)}, <<Point(2, 2)>>) :
            sn \in Rosters([i \in 1..n |->
                               StageSnakes(AllIDs[i], {<<Point(i, 0)>>}, {50}, Causes,
                                           {""} \cup IDsUpTo(n))], n),
            t \in {0, 1}}
        : n \in 0..max}

InitResurrect == \E b \in ResurrectBoards(MaxStageSnakes) : StartWith(b, DefaultSettings(NoSquads), "squad")

\* the settings the resurrection stage is called with
ResurrectSettings(b) ==
    {DefaultSettings(SquadSettings(m, abc, FALSE, FALSE, FALSE)) :
        m \in StageSquadMaps(RosterIDs(b)), abc \in BOOLEAN}

CallResurrectSnakesSquad ==
    /\ op = "init"
    /\ \E st \in ResurrectSettings(heap[boardState]), mv \in StageMoves :
        CallStage("ResurrectSnakesSquad",
                  ResurrectSnakesSquad(heap[boardState], st, mv), st, mv)

NextResurrect == CallResurrectSnakesSquad

SpecResurrect == InitResurrect /\ [][NextResurrect]_vars

\* the call is not the initialisation call: the turn has advanced or moves are given
PastInitialisation == entry.Turn > 0 \/ Len(moves) > 0

\* the squad an ID is on: its squadMap entry, "" when it has none
SquadOfID(st, id) == MapGet(st.SquadSettings.squadMap, id)

CulpritMissing(b) ==
    \E i \in 1..Len(b.Snakes) :
        /\ b.Snakes[i].EliminatedCause = EliminatedByCollision
        /\ b.Snakes[i].EliminatedBy = ""

\* C6 as stated: a collision-eliminated snake with an empty EliminatedBy is reported
\* as an error by the stage for every setting of the squad flags and on every turn.
C6_AlwaysReported ==
    (op = "ResurrectSnakesSquad" /\ CulpritMissing(entry)) => ret.err

\* C6 amended: it is reported as an error whenever AllowBodyCollisions is enabled and
\* the call is not the initialisation call; otherwise the stage returns no error.
C6_ReportedWhenStageRuns ==
    op = "ResurrectSnakesSquad" =>
        (ret.err <=> (/\ CulpritMissing(entry)
                      /\ settings.SquadSettings.AllowBodyCollisions
                      /\ PastInitialisation))

\* C6 witness: the stage runs on a board with such a snake (not the first) and fails
C6_Witness ==
    /\ op = "ResurrectSnakesSquad"
    /\ ret.err
    /\ Len(entry.Snakes) >= 2
    /\ entry.Snakes[1].EliminatedCause # EliminatedByCollision
    /\ CulpritMissing(entry)

\* C7: with AllowBodyCollisions disabled the stage changes nothing: snakes, food,
\* hazards and turn are as they were, no elimination is reverted, no error is returned.
C7_DisabledIsNoOp ==
    (op = "ResurrectSnakesSquad" /\ ~settings.SquadSettings.AllowBodyCollisions) =>
        /\ heap[boardState] = entry
        /\ ret = NoResult

\* C7 witness: the flag is off, the call is past initialisation, and a victim of a
\* squad-mate's body stays eliminated
C7_Witness ==
    /\ op = "ResurrectSnakesSquad"
    /\ ~settings.SquadSettings.AllowBodyCollisions
    /\ PastInitialisation
    /\ \E i \in 1..Len(entry.Snakes) :
          LET s == entry.Snakes[i] IN
          /\ s.EliminatedCause = EliminatedByCollision
          /\ s.EliminatedBy \notin {"", s.ID}
          /\ SquadOfID(settings, s.EliminatedBy) = SquadOfID(settings, s.ID)
          /\ heap[boardState].Snakes[i].EliminatedCause = EliminatedByCollision

\* the snake was eliminated by the body of another snake of its own squad
VictimOfSquadMate(st, s) ==
    /\ s.EliminatedCause = EliminatedByCollision
    /\ s.EliminatedBy # ""
    /\ s.EliminatedBy # s.ID
    /\ SquadOfID(st, s.EliminatedBy) = SquadOfID(st, s.ID)

\* C25: however ResurrectSnakesSquad returns, the board's Food, Hazards, Turn, Width and
\* Height, the number and order of its snakes and every snake's Body, Health and
\* EliminatedOnTurn are as they were; a snake whose EliminatedCause or EliminatedBy
\* differs is a victim of a squad-mate that the stage left NotEliminated with
\* EliminatedBy empty
C25_ResurrectionFrame ==
    op = "ResurrectSnakesSquad" =>
        LET before == entry
            after == heap[boardState]
        IN /\ after.Food = before.Food
           /\ after.Hazards = before.Hazards
           /\ after.Turn = before.Turn
           /\ after.Width = before.Width
           /\ after.Height = before.Height
           /\ Len(after.Snakes) = Len(before.Snakes)
           /\ \A i \in 1..Len(before.Snakes) :
                 LET s == before.Snakes[i]
                     t == after.Snakes[i]
                 IN /\ t.ID = s.ID
                    /\ t.Body = s.Body
                    /\ t.Health = s.Health
                    /\ t.EliminatedOnTurn = s.EliminatedOnTurn
                    /\ t # s =>
                         /\ VictimOfSquadMate(settings, s)
                         /\ t.EliminatedCause = NotEliminated
                         /\ t.EliminatedBy = ""

\* the stage resurrected a snake, which keeps the turn of its elimination, and left
\* another eliminated snake as it was
C25_Witness ==
    /\ op = "ResurrectSnakesSquad"
    /\ \E i \in 1..Len(entry.Snakes) :
          /\ ~Alive(entry.Snakes[i])
          /\ Alive(heap[boardState].Snakes[i])
          /\ heap[boardState].Snakes[i].EliminatedOnTurn = 1
          /\ \E k \in 1..Len(entry.Snakes) :
                /\ k # i
                /\ ~Alive(entry.Snakes[k])
                /\ heap[boardState].Snakes[k] = entry.Snakes[k]

----------------------------------------------------------------------------
(* The squad attribute sharing stage on every small board *)

\* the bodies of the snake at index i: none, one segment, three segments
ShareBodies(i) == {<<>>, <<Point(i, 0)>>, <<Point(i, 0), Point(i, 1), Point(i, 2)>>}

ShareBoards(max) ==
    UNION {
        {BoardState(t, sn, {Point(1, 1)}, <<Point(2, 2)>>) :
            sn \in Rosters([i \in 1..n |->
                               StageSnakes(AllIDs[i], ShareBodies(i), {10, 80},
                                           {NotEliminated, EliminatedByCollision},
                                           {AllIDs[max + 1]})], n),
            t \in {0, 1}}
        : n \in 0..max}

InitShare == \E b \in ShareBoards(MaxStageSnakes) : StartWith(b, DefaultSettings(NoSquads), "squad")

\* the settings the sharing stage is called with: every combination of sharing flags
ShareSettings(b) ==
    {DefaultSettings(SquadSettings(m, FALSE, se, sh, sl)) :
        m \in StageSquadMaps(RosterIDs(b)), se \in BOOLEAN, sh \in BOOLEAN, sl \in BOOLEAN}

CallShareAttributesSquad ==
    /\ op = "init"
    /\ \E st \in ShareSettings(heap[boardState]), mv \in StageMoves :
        CallStage("ShareAttributesSquad",
                  ShareAttributesSquad(heap[boardState], st, mv), st, mv)

NextShare == CallShareAttributesSquad

SpecShare == InitShare /\ [][NextShare]_vars

\* the indices of the snakes of b on the squad of the snake at index i
SquadMates(st, b, i) ==
    {j \in 1..Len(b.Snakes) : SquadOf(st, b.Snakes[j]) = SquadOf(st, b.Snakes[i])}

SetMax(S) == CHOOSE x \in S : \A y \in S : y <= x

AnySharing(st) ==
    \/ st.SquadSettings.SharedHealth
    \/ st.SquadSettings.SharedLength
    \/ st.SquadSettings.SharedElimination

\* C8: the sharing stage is a no-op (board unchanged, no error, terminate false) when
\* none of SharedHealth, SharedLength, SharedElimination is enabled, and when it is
\* called on the initialisation turn (turn 0 with no moves) whatever the flags are.
C8_SharingNoOp ==
    (/\ op = "ShareAttributesSquad"
     /\ (~AnySharing(settings) \/ (entry.Turn = 0 /\ Len(moves) = 0))) =>
        /\ heap[boardState] = entry
        /\ ret = NoResult

\* C8 witness: no sharing flag is set, the call is past initialisation, and a living
\* snake still has less health and a shorter body than a living squad-mate
C8_Witness ==
    /\ op = "ShareAttributesSquad"
    /\ ~AnySharing(settings)
    /\ PastInitialisation
    /\ heap[boardState] = entry
    /\ \E i \in Living(entry) : \E j \in SquadMates(settings, entry, i) \cap Living(entry) :
          /\ entry.Snakes[i].Health < entry.Snakes[j].Health
          /\ Len(entry.Snakes[i].Body) < Len(entry.Snakes[j].Body)

\* the sharing stage ran its loops to the end
ShareRan ==
    /\ op = "ShareAttributesSquad"
    /\ AnySharing(settings)
    /\ PastInitialisation
    /\ ~ret.err

\* C9: with SharedHealth enabled, after the stage every living snake's health is the
\* maximum health over the living snakes of its squad as they were at stage entry (X=10
\* and squad-mate Y=80 both end at 80); the health of an eliminated squad-mate does not
\* contribute to that maximum, and no snake's health is lowered.
C9_MaxOverLivingMates ==
    (ShareRan /\ settings.SquadSettings.SharedHealth) =>
        /\ \A i \in Living(heap[boardState]) :
              heap[boardState].Snakes[i].Health =
                  SetMax({entry.Snakes[j].Health :
                              j \in SquadMates(settings, entry, i) \cap Living(entry)})
        /\ \A i \in 1..Len(entry.Snakes) :
              heap[boardState].Snakes[i].Health >= entry.Snakes[i].Health

\* what the stage computes instead: the maximum ranges over every snake of the squad,
\* the eliminated ones included (line 146-150 never looks at other.EliminatedCause)
SharedHealthOverAllMates ==
    (ShareRan /\ settings.SquadSettings.SharedHealth) =>
        \A i \in 1..Len(entry.Snakes) :
            heap[boardState].Snakes[i].Health =
                IF i \in Living(entry)
                THEN SetMax({entry.Snakes[j].Health : j \in SquadMates(settings, entry, i)})
                ELSE entry.Snakes[i].Health

\* s is t followed by copies of the last element of t
IsTailPadded(s, t) ==
    /\ Len(s) >= Len(t)
    /\ \A k \in 1..Len(t) : s[k] = t[k]
    /\ \A k \in (Len(t) + 1)..Len(s) : Len(t) > 0 /\ s[k] = t[Len(t)]

NoZeroLength(b) == \A i \in 1..Len(b.Snakes) : Len(b.Snakes[i].Body) > 0

\* C10: with SharedLength enabled and no zero-length snake, after the stage all living
\* snakes of one squad have the same body length, the maximum length in that squad at
\* entry; a snake is only ever lengthened, by copies of its own tail, and its existing
\* segments keep their order and positions.
C10_SharedLength ==
    (/\ op = "ShareAttributesSquad"
     /\ settings.SquadSettings.SharedLength
     /\ PastInitialisation
     /\ NoZeroLength(entry)) =>
        /\ ~ret.err
        /\ \A i \in Living(heap[boardState]) :
              Len(heap[boardState].Snakes[i].Body) =
                 SetMax({Len(entry.Snakes[j].Body) : j \in SquadMates(settings, entry, i)})
        /\ \A i \in Living(heap[boardState]) :
              \A j \in SquadMates(settings, entry, i) \cap Living(heap[boardState]) :
                 Len(heap[boardState].Snakes[i].Body) = Len(heap[boardState].Snakes[j].Body)
        /\ \A i \in 1..Len(entry.Snakes) :
              IsTailPadded(heap[boardState].Snakes[i].Body, entry.Snakes[i].Body)

\* C10 witness: a living snake of length 1 ends with the length 3 of its squad-mate
C10_Witness ==
    /\ op = "ShareAttributesSquad"
    /\ settings.SquadSettings.SharedLength
    /\ NoZeroLength(entry)
    /\ \E i \in Living(heap[boardState]) :
          \E j \in SquadMates(settings, entry, i) \cap Living(heap[boardState]) :
              /\ Len(entry.Snakes[i].Body) = 1
              /\ Len(entry.Snakes[j].Body) = 3
              /\ Len(heap[boardState].Snakes[i].Body) = 3

\* a snake of the squad of snake i was eliminated when the stage was entered
HasEliminatedMate(st, b, i) == \E j \in SquadMates(st, b, i) : ~Alive(b.Snakes[j])

\* C11: with SharedElimination enabled, after a sharing stage that ran to its end every
\* snake that was living at entry and has an eliminated squad-mate is eliminated with
\* cause EliminatedBySquad and an empty EliminatedBy, and every living snake whose
\* squad has no eliminated member is still NotEliminated.
C11_SharedElimination ==
    (ShareRan /\ settings.SquadSettings.SharedElimination) =>
        \A i \in Living(entry) :
            IF HasEliminatedMate(settings, entry, i)
            THEN /\ heap[boardState].Snakes[i].EliminatedCause = EliminatedBySquad
                 /\ heap[boardState].Snakes[i].EliminatedBy = ""
            ELSE heap[boardState].Snakes[i].EliminatedCause = NotEliminated

\* C11 witness: a living snake is eliminated with its eliminated squad-mate
C11_Witness ==
    /\ ShareRan
    /\ settings.SquadSettings.SharedElimination
    /\ \E i \in Living(entry) :
          /\ HasEliminatedMate(settings, entry, i)
          /\ heap[boardState].Snakes[i].EliminatedCause = EliminatedBySquad

\* the sharing stage runs its loops: a sharing flag is enabled and the call is not the
\* initialisation call
ShareLoopsRan ==
    /\ op = "ShareAttributesSquad"
    /\ AnySharing(settings)
    /\ PastInitialisation

\* a living snake or one of its squad-mates has no body
ZeroLengthOnSquad(st, b) ==
    \E i \in Living(b) : \E j \in SquadMates(st, b, i) : Len(b.Snakes[j].Body) = 0

\* C12 as stated: when the sharing stage runs on a board where a living snake or one
\* of its squad-mates has a zero-length body, it returns an error, whichever of the
\* three sharing flags is the one enabled.
C12_ErrorUnderAnyFlag ==
    (ShareLoopsRan /\ ZeroLengthOnSquad(settings, entry)) => ret.err

\* C12: when the sharing stage runs, it returns an error exactly when SharedLength is
\* enabled and a living snake or one of its squad-mates has a zero-length body.
C12_ErrorUnderSharedLength ==
    ShareLoopsRan =>
        (ret.err <=> (settings.SquadSettings.SharedLength
                        /\ ZeroLengthOnSquad(settings, entry)))

\* C12 witness: SharedLength is on, a squad-mate of a living snake that has a body has
\* none, and the stage fails
C12_Witness ==
    /\ ShareLoopsRan
    /\ settings.SquadSettings.SharedLength
    /\ ret.err
    /\ \E i \in Living(entry) :
          /\ Len(entry.Snakes[i].Body) > 0
          /\ \E j \in SquadMates(settings, entry, i) : Len(entry.Snakes[j].Body) = 0

\* C17: a snake that is eliminated when ShareAttributesSquad is entered has the same
\* Body, Health, EliminatedCause, EliminatedBy and EliminatedOnTurn when it returns,
\* whatever the sharing flags are and however the stage ends
C17_EliminatedFrozen ==
    op = "ShareAttributesSquad" =>
        \A i \in 1..Len(entry.Snakes) :
            ~Alive(entry.Snakes[i]) =>
                LET before == entry.Snakes[i]
                    after == heap[boardState].Snakes[i]
                IN /\ after.Body = before.Body
                   /\ after.Health = before.Health
                   /\ after.EliminatedCause = before.EliminatedCause
                   /\ after.EliminatedBy = before.EliminatedBy
                   /\ after.EliminatedOnTurn = before.EliminatedOnTurn

\* the stage ran its loops with health and length shared, an eliminated snake has a
\* squad-mate that is healthier and longer than it is, and a living snake was changed
C17_Witness ==
    /\ ShareRan
    /\ settings.SquadSettings.SharedHealth
    /\ settings.SquadSettings.SharedLength
    /\ \E i \in 1..Len(entry.Snakes) :
          /\ ~Alive(entry.Snakes[i])
          /\ heap[boardState].Snakes[i] = entry.Snakes[i]
          /\ \E j \in SquadMates(settings, entry, i) :
                /\ entry.Snakes[j].Health > entry.Snakes[i].Health
                /\ Len(entry.Snakes[j].Body) > Len(entry.Snakes[i].Body)
    /\ \E k \in Living(entry) : heap[boardState].Snakes[k] # entry.Snakes[k]

\* C23: when ShareAttributesSquad returns no error, applying it again to the board it
\* left, with the same settings and moves, changes nothing and returns no error
C23_SharingIdempotent ==
    (op = "ShareAttributesSquad" /\ ~ret.err) =>
        ShareAttributesSquad(heap[boardState], settings, moves)
            = StageResult(heap[boardState], FALSE, FALSE)

\* the stage ran with every sharing flag on and raised the health and the length of a
\* living snake, and a second application leaves its board as it is
C23_Witness ==
    /\ ShareRan
    /\ settings.SquadSettings.SharedHealth
    /\ settings.SquadSettings.SharedLength
    /\ settings.SquadSettings.SharedElimination
    /\ \E i \in Living(entry) :
          /\ heap[boardState].Snakes[i].Health > entry.Snakes[i].Health
          /\ Len(heap[boardState].Snakes[i].Body) > Len(entry.Snakes[i].Body) + 1
    /\ ShareAttributesSquad(heap[boardState], settings, moves).b = heap[boardState]

----------------------------------------------------------------------------
(* The standard stages, the stage registry and the pipeline.  Their code is *)
(* not among the source files; they follow sections 4.1 and 4.2 of the      *)
(* specification.                                                           *)

Directions == {"up", "down", "left", "right"}

DirVec(d) ==
    CASE d = "up" -> Point(0, 1)
      [] d = "down" -> Point(0, -1)
      [] d = "left" -> Point(-1, 0)
      [] OTHER -> Point(1, 0)

Plus(p, v) == Point(p.X + v.X, p.Y + v.Y)

Cells == {Point(x, y) : x \in 0..(BoardWidth - 1), y \in 0..(BoardHeight - 1)}

Range(q) == {q[k] : k \in 1..Len(q)}

\* the direction submitted for a snake: "" when the list holds none for it
RECURSIVE MoveOf(_, _, _)
MoveOf(mv, id, k) ==
    IF k > Len(mv) THEN ""
    ELSE IF mv[k].ID = id THEN mv[k].Move
    ELSE MoveOf(mv, id, k + 1)

\* the vector a snake keeps moving along: from its neck to its head, up if it has none
Heading(body) ==
    IF Len(body) >= 2 /\ body[1] # body[2]
    THEN Point(body[1].X - body[2].X, body[1].Y - body[2].Y)
    ELSE DirVec("up")

\* movement of one snake: a missing or invalid move, or a reversal into the neck,
\* continues straight; the head is prepended and the last segment dropped
MoveSnake(snake, mv) ==
    LET body == snake.Body
        m == MoveOf(mv, snake.ID, 1)
        reversal == Len(body) >= 2 /\ body[1] # body[2] /\ Plus(body[1], DirVec(m)) = body[2]
        vec == IF m \in Directions /\ ~reversal THEN DirVec(m) ELSE Heading(body)
    IN IF Len(body) = 0 THEN snake
       ELSE [snake EXCEPT !.Body = <<Plus(body[1], vec)>> \o SubSeq(body, 1, Len(body) - 1)]

MoveSnakesStandard(b, st, mv) ==
    StageResult(
        [b EXCEPT !.Snakes = [i \in 1..Len(b.Snakes) |->
            IF Alive(b.Snakes[i]) THEN MoveSnake(b.Snakes[i], mv) ELSE b.Snakes[i]]],
        FALSE, FALSE)

\* a living snake loses health; at zero it is eliminated, out of health, by nobody
Damage(snake, n, turn) ==
    LET h == IF snake.Health - n < 0 THEN 0 ELSE snake.Health - n
    IN IF h <= 0
       THEN [snake EXCEPT !.Health = h, !.EliminatedCause = EliminatedByOutOfHealth,
                          !.EliminatedBy = "", !.EliminatedOnTurn = turn + 1]
       ELSE [snake EXCEPT !.Health = h]

ReduceSnakeHealthStandard(b, st, mv) ==
    StageResult(
        [b EXCEPT !.Snakes = [i \in 1..Len(b.Snakes) |->
            IF Alive(b.Snakes[i]) THEN Damage(b.Snakes[i], 1, b.Turn) ELSE b.Snakes[i]]],
        FALSE, FALSE)

DamageHazardsStandard(b, st, mv) ==
    StageResult(
        [b EXCEPT !.Snakes = [i \in 1..Len(b.Snakes) |->
            IF /\ Alive(b.Snakes[i])
               /\ Len(b.Snakes[i].Body) > 0
               /\ b.Snakes[i].Body[1] \in Range(b.Hazards)
            THEN Damage(b.Snakes[i], st.HazardDamagePerTurn, b.Turn)
            ELSE b.Snakes[i]]],
        FALSE, FALSE)

\* in board order: a living snake whose head is on food eats it, is restored to full
\* health and grows; the first snake in order wins a contested cell
RECURSIVE FeedLoop(_, _)
FeedLoop(b, i) ==
    IF i > Len(b.Snakes) THEN b
    ELSE LET snake == b.Snakes[i] IN
         IF Alive(snake) /\ Len(snake.Body) > 0 /\ snake.Body[1] \in b.Food
         THEN FeedLoop([b EXCEPT !.Food = b.Food \ {snake.Body[1]},
                                 !.Snakes[i] = growSnake([snake EXCEPT !.Health = SnakeMaxHealth])],
                       i + 1)
         ELSE FeedLoop(b, i + 1)

FeedSnakesStandard(b, st, mv) == StageResult(FeedLoop(b, 1), FALSE, FALSE)

\* the cells holding no food, no hazard and no segment of any snake
Unoccupied(b) ==
    Cells \ (b.Food \cup Range(b.Hazards)
             \cup UNION {Range(b.Snakes[i].Body) : i \in 1..Len(b.Snakes)})

Before(p, q) == p.X < q.X \/ (p.X = q.X /\ p.Y < q.Y)

\* the random draw of a cell: the k-th cell of S in reading order (S is not empty)
RECURSIVE Pick(_, _)
Pick(S, k) ==
    LET first == CHOOSE p \in S : \A q \in S \ {p} : Before(p, q)
    IN IF k <= 0 \/ Cardinality(S) = 1 THEN first ELSE Pick(S \ {first}, k - 1)

RECURSIVE TopUpFood(_, _, _)
TopUpFood(b, st, rnd) ==
    IF Cardinality(b.Food) >= st.MinimumFood \/ Unoccupied(b) = {} THEN b
    ELSE TopUpFood([b EXCEPT !.Food = b.Food \cup {Pick(Unoccupied(b), rnd.cell)}], st, rnd)

\* rnd is what the seeded generator yields this turn: the roll against
\* FoodSpawnChance and the cell drawn
SpawnFoodStandard(b, st, mv, rnd) ==
    LET rolled == IF rnd.roll /\ st.FoodSpawnChance > 0 /\ Unoccupied(b) # {}
                  THEN [b EXCEPT !.Food = b.Food \cup {Pick(Unoccupied(b), rnd.cell)}]
                  ELSE b
    IN StageResult(TopUpFood(rolled, st, rnd), FALSE, FALSE)

InBounds(p) == p \in Cells

\* the living snakes other than i that have a body, as they are at stage entry
Others(b, i) == {j \in Living(b) \ {i} : Len(b.Snakes[j].Body) > 0}

\* the first in board order of a set of snakes, 0 if there is none
First(c) == IF c = {} THEN 0 ELSE CHOOSE j \in c : \A k \in c : j <= k

\* the elimination of one living snake, judged on the bodies as they are at stage entry
Eliminate(b, i) ==
    LET snake == b.Snakes[i]
        head == snake.Body[1]
        body == First({j \in Others(b, i) : head \in Range(Tail(b.Snakes[j].Body))})
        heads == First({j \in Others(b, i) : /\ b.Snakes[j].Body[1] = head
                                             /\ Len(b.Snakes[j].Body) >= Len(snake.Body)})
        Out(cause, by) == [snake EXCEPT !.EliminatedCause = cause, !.EliminatedBy = by,
                                        !.EliminatedOnTurn = b.Turn + 1]
    IN IF Len(snake.Body) = 0 THEN snake
       ELSE IF ~InBounds(head) THEN Out(EliminatedByOutOfBounds, "")
       ELSE IF head \in Range(Tail(snake.Body)) THEN Out(EliminatedBySelfCollision, snake.ID)
       ELSE IF body # 0 THEN Out(EliminatedByCollision, b.Snakes[body].ID)
       ELSE IF heads # 0 THEN Out(EliminatedByHeadToHeadCollision, b.Snakes[heads].ID)
       ELSE snake

EliminateSnakesStandard(b, st, mv) ==
    StageResult(
        [b EXCEPT !.Snakes = [i \in 1..Len(b.Snakes) |->
            IF Alive(b.Snakes[i]) THEN Eliminate(b, i) ELSE b.Snakes[i]]],
        FALSE, FALSE)

\* the registered function of a stage name, applied
RunStage(name, b, st, mv, rnd) ==
    LET fn == registry[name] IN
    CASE fn = "movement" -> MoveSnakesStandard(b, st, mv)
      [] fn = "reducehealth" -> ReduceSnakeHealthStandard(b, st, mv)
      [] fn = "hazarddamage" -> DamageHazardsStandard(b, st, mv)
      [] fn = "eatfood" -> FeedSnakesStandard(b, st, mv)
      [] fn = "placefood" -> SpawnFoodStandard(b, st, mv, rnd)
      [] fn = "eliminate" -> EliminateSnakesStandard(b, st, mv)
      [] fn = "collision.squad" -> ResurrectSnakesSquad(b, st, mv)
      [] fn = "share.squad" -> ShareAttributesSquad(b, st, mv)
      [] fn = "gameover.solo" -> GameOverSolo(b, st, mv)
      [] OTHER -> GameOverSquad(b, st, mv)

\* a pipeline is built from stage names; an unregistered name fails the construction
NewPipeline(names) ==
    IF \E k \in 1..Len(names) : names[k] \notin DOMAIN registry
    THEN [stages |-> <<>>, err |-> TRUE]
    ELSE [stages |-> names, err |-> FALSE]

----------------------------------------------------------------------------
(* The pipelines of the two rulesets, and a turn *)

\* solo.go: the stage names SoloRuleset.Pipeline hands to NewPipeline
SoloStages ==
    <<"movement.standard", "reducehealth.standard", "hazarddamage.standard",
      "eatfood.standard", "placefood.standard", "eliminatesnake.standard",
      "gameover.solo">>

\* a squad pipeline that shares attributes before it resurrects
SquadStagesShareFirst ==
    <<"snake.movement.standard", "health.reduce.standard", "hazard.damage.standard",
      "snake.eatfood.standard", "food.spawn.standard", "snake.eliminate.standard",
      "snake.share.squad", "snake.collision.squad", "gameover.squad">>

\* cli/battlesnake/main.go: the stage names SquadRuleset.Pipeline hands to NewPipeline
SquadStages ==
    <<"snake.movement.standard", "health.reduce.standard", "hazard.damage.standard",
      "snake.eatfood.standard", "food.spawn.standard", "snake.eliminate.standard",
      "snake.collision.squad", "snake.share.squad", "gameover.squad">>

Pipeline(rs) == NewPipeline(IF rs = "solo" THEN SoloStages ELSE SquadStages)

\* the record the trace keeps of one stage call: the stage, whether it failed and the
\* snakes as it left them
Ran(name, r) == [name |-> name, err |-> r.err, snakes |-> r.b.Snakes]

\* the stages from the k-th on, applied in order to the working board: a stage that
\* fails or terminates stops the run; ran is the stages that were called, each with its
\* name and whether it returned an error
RECURSIVE RunStages(_, _, _, _, _, _)
RunStages(stages, k, b, st, mv, rnd) ==
    IF k > Len(stages) THEN [b |-> b, term |-> FALSE, err |-> FALSE, ran |-> <<>>]
    ELSE CHOOSE out \in
           {IF r.err \/ r.term
            THEN [b |-> r.b, term |-> r.term, err |-> r.err, ran |-> <<Ran(stages[k], r)>>]
            ELSE CHOOSE all \in {[rest EXCEPT !.ran = <<Ran(stages[k], r)>> \o rest.ran] :
                                    rest \in {RunStages(stages, k + 1, r.b, st, mv, rnd)}} : TRUE
              : r \in {RunStage(stages[k], b, st, mv, rnd)}} : TRUE

\* the board object that is not the given one
Fresh(ref) == CHOOSE r \in Refs : r # ref

\* Pipeline.Execute: the stages run on a working copy of the board; the copy is what
\* is returned, and nothing is returned with an error
Execute(p, h, ref, st, mv, rnd) ==
    LET work == Fresh(ref)
        r == RunStages(p.stages, 1, h[ref], st, mv, rnd)
    IN [heap |-> [h EXCEPT ![work] = r.b],
        nextState |-> IF r.err THEN Nil ELSE work,
        term |-> r.term, err |-> r.err, ran |-> r.ran]

\* the stages run on the caller's board itself
CreateNextBoardStateInPlace(h, rs, prev, st, mv, rnd) ==
    LET p == Pipeline(rs) IN
    IF p.err THEN [heap |-> h, nextState |-> Nil, err |-> TRUE, ran |-> <<>>]
    ELSE LET r == RunStages(p.stages, 1, h[prev], st, mv, rnd)
         IN [heap |-> [h EXCEPT ![prev] = r.b],
             nextState |-> IF r.err THEN Nil ELSE prev, err |-> r.err, ran |-> r.ran]

\* Ruleset.CreateNextBoardState(prevState, moves): (nextState, err); ran is the stages
\* that were called on the way
\* a faulty variant: errors are swallowed and the board as far as the stages got with
\* it is returned
CreateNextBoardStateBestEffort(h, rs, prev, st, mv, rnd) ==
    LET p == Pipeline(rs) IN
    IF p.err THEN [heap |-> h, nextState |-> prev, err |-> FALSE, ran |-> <<>>]
    ELSE LET e == Execute(p, h, prev, st, mv, rnd)
         IN [heap |-> e.heap, nextState |-> Fresh(prev), err |-> FALSE, ran |-> e.ran]

CreateNextBoardState(h, rs, prev, st, mv, rnd) ==
    LET p == Pipeline(rs) IN
    IF p.err THEN [heap |-> h, nextState |-> Nil, err |-> TRUE, ran |-> <<>>]
    ELSE LET e == Execute(p, h, prev, st, mv, rnd)
         IN [heap |-> e.heap, nextState |-> e.nextState, err |-> e.err, ran |-> e.ran]

\* maps.UpdateBoard: the game map may add a hazard to the board after the pipeline
UpdateBoard(b, st, hz) ==
    LET free == Cells \ Range(b.Hazards)
    IN IF hz /\ free # {} THEN [b EXCEPT !.Hazards = Append(b.Hazards, Pick(free, 0))]
       ELSE b

----------------------------------------------------------------------------
(* SpecTurn: one turn computed from a board, by a caller of the ruleset or  *)
(* by the driver                                                            *)

\* where the i-th snake lies
TurnBody(i) ==
    CASE i = 1 -> <<Point(0, 1), Point(0, 0), Point(0, 0)>>
      [] i = 2 -> <<Point(2, 1), Point(1, 1), Point(1, 0)>>
      [] OTHER -> <<Point(1, 2), Point(2, 2), Point(2, 2)>>

\* the i-th of n snakes: alive and fed, alive and starving, the body-collision victim
\* of the next snake, a body-collision victim without a culprit, or starved and
\* without a body
TurnSnakes(i, n) ==
    LET id == AllIDs[i]
        next == AllIDs[(i % (IF n < 2 THEN 2 ELSE n)) + 1]
    IN {Snake(id, TurnBody(i), SnakeMaxHealth, NotEliminated, "", 0),
        Snake(id, TurnBody(i), 1, NotEliminated, "", 0),
        Snake(id, TurnBody(i), 50, EliminatedByCollision, next, 1),
        Snake(id, TurnBody(i), 50, EliminatedByCollision, "", 1),
        Snake(id, <<>>, 0, EliminatedByOutOfHealth, "", 1)}

RECURSIVE TurnRosters(_, _)
TurnRosters(i, n) ==
    IF i > n THEN {<<>>}
    ELSE {<<s>> \o rest : s \in TurnSnakes(i, n), rest \in TurnRosters(i + 1, n)}

TurnBoards(max) ==
    {BoardState(t, snakes, food, <<Point(2, 2)>>) :
        t \in {0, 1},
        snakes \in UNION {TurnRosters(1, n) : n \in 0..max},
        food \in {{}, {Point(0, 2)}}}

InitTurn == \E b \in TurnBoards(MaxTurnSnakes) : StartWith(b, DefaultSettings(NoSquads), "squad")

\* the settings of the game: the defaults of the command line, and for a squad game
\* the flags and who is on which squad
TurnSettings(b, rs) ==
    IF rs = "solo" THEN {Settings(15, 1, 14, NoSquads)}
    ELSE {Settings(15, 1, 14, SquadSettings(m, f[1], f[2], f[2], f[2])) :
            m \in {[id \in RosterIDs(b) |-> "red"],
                   [id \in RosterIDs(b) |-> IF id = AllIDs[1] THEN "red" ELSE "blue"]},
            f \in BOOLEAN \X BOOLEAN}

\* what the seeded generator yields in the turn
Draws == {[roll |-> FALSE, cell |-> 0], [roll |-> TRUE, cell |-> 1]}

\* the IDs of the living snakes, in board order
RECURSIVE LivingIDs(_, _)
LivingIDs(b, i) ==
    IF i > Len(b.Snakes) THEN <<>>
    ELSE (IF Alive(b.Snakes[i]) THEN <<b.Snakes[i].ID>> ELSE <<>>) \o LivingIDs(b, i + 1)

Reverse(q) == [k \in 1..Len(q) |-> q[Len(q) + 1 - k]]

\* one move for each of ids, in that order
MovesOf(ids, f) == [k \in 1..Len(ids) |-> [ID |-> ids[k], Move |-> f[ids[k]]]]

\* the move lists a caller hands over: none, or a direction for each living snake
TurnMoves(b) ==
    {<<>>} \cup {MovesOf(LivingIDs(b, 1), f) : f \in [Range(LivingIDs(b, 1)) -> Directions]}

\* a caller of the ruleset computes the next board from its board, and goes on with
\* the board it is given
CallCreateNextBoardState ==
    /\ op = "init"
    /\ \E rs \in {"solo", "squad"}, mv \in TurnMoves(heap[boardState]), rnd \in Draws :
         \E st \in TurnSettings(heap[boardState], rs) :
           \E r \in {CreateNextBoardState(heap, rs, boardState, st, mv, rnd)} :
           /\ entry' = heap[boardState]
           /\ heap' = r.heap
           /\ prevState' = boardState
           /\ boardState' = IF r.err THEN boardState ELSE r.nextState
           /\ ruleset' = rs
           /\ settings' = st
           /\ moves' = mv
           /\ op' = "CreateNextBoardState"
           /\ ret' = [term |-> FALSE, err |-> r.err]
           /\ stagesRun' = r.ran
           /\ UNCHANGED <<snakeStates, driver, registry>>

RequestFailed == "request-failed"

\* what comes of the request to a snake's server: the move it answers, or a failure
Responses == {"left", "right", RequestFailed}

\* a faulty variant: a failed request is answered with "up"
getMoveOrUp(snakeState, answer) == IF answer = RequestFailed THEN "up" ELSE answer

\* getMoveForSnake: the answer, or the snake's last move when the request failed
getMoveForSnake(snakeState, answer) ==
    IF answer = RequestFailed THEN snakeState.LastMove ELSE answer

\* GameState.createNextBoardState: a move is collected from every living snake (in the
\* order the map of snake states yields them), the last moves are recorded, the
\* ruleset computes the next board (an error ends the process), the game map updates
\* it, and its Turn is incremented
createNextBoardState ==
    /\ op = "init"
    /\ \E rs \in {"solo", "squad"}, rnd \in Draws, hz \in BOOLEAN, backwards \in BOOLEAN :
         \E st \in TurnSettings(heap[boardState], rs),
            answer \in [Range(LivingIDs(heap[boardState], 1)) -> Responses] :
           LET ids == IF backwards THEN Reverse(LivingIDs(heap[boardState], 1))
                      ELSE LivingIDs(heap[boardState], 1)
               mv == MovesOf(ids, [id \in Range(ids) |->
                                      getMoveForSnake(snakeStates[id], answer[id])])
           IN
           \E r \in {CreateNextBoardState(heap, rs, boardState, st, mv, rnd)} :
           LET next == UpdateBoard(r.heap[r.nextState], st, hz) IN
           /\ entry' = heap[boardState]
           /\ moves' = mv
           /\ snakeStates' = [id \in DOMAIN snakeStates |->
                                 IF id \in Range(ids)
                                 THEN [snakeStates[id] EXCEPT !.LastMove = MoveOf(mv, id, 1)]
                                 ELSE snakeStates[id]]
           /\ prevState' = boardState
           /\ ruleset' = rs
           /\ settings' = st
           /\ op' = "createNextBoardState"
           /\ ret' = [term |-> FALSE, err |-> r.err]
           /\ stagesRun' = r.ran
           /\ UNCHANGED <<driver, registry>>
           /\ IF r.err
              THEN heap' = r.heap /\ boardState' = boardState
              ELSE /\ heap' = [r.heap EXCEPT ![r.nextState] = [next EXCEPT !.Turn = next.Turn + 1]]
                   /\ boardState' = r.nextState

NextTurn == CallCreateNextBoardState \/ createNextBoardState

SpecTurn == InitTurn /\ [][NextTurn]_vars

\* the last operation was a turn, computed by either caller
TurnRan == op \in {"CreateNextBoardState", "createNextBoardState"}

C4_RoundTrip ==
    (op = "createNextBoardState" /\ Living(entry) = {} /\ moves = <<>>) =>
        /\ ~ret.err
        /\ heap[boardState].Turn = entry.Turn + 1
        /\ heap[boardState].Snakes = entry.Snakes

\* the ruleset itself leaves Turn alone: it is the driver that increments it
RulesetKeepsTurn ==
    (op = "CreateNextBoardState" /\ ~ret.err) => heap[boardState].Turn = entry.Turn

\* the round trip on the boards the game loop can hand over with no snake alive: the
\* squad stage finds no body-collision victim to revive or to report
RoundTripWithoutCollisionVictims ==
    (/\ op = "createNextBoardState"
     /\ Living(entry) = {}
     /\ \A i \in 1..Len(entry.Snakes) : entry.Snakes[i].EliminatedCause # EliminatedByCollision) =>
        /\ moves = <<>>
        /\ ~ret.err
        /\ heap[boardState].Turn = entry.Turn + 1
        /\ heap[boardState].Snakes = entry.Snakes

----------------------------------------------------------------------------
(* The order of the stages, and errors *)

\* the six stages every ruleset starts with, as the registry knows them
Backbone ==
    <<"movement", "reducehealth", "hazarddamage", "eatfood", "placefood", "eliminate">>

\* the stage functions the registry resolves a list of stage names to
StageFunctions(names) == [k \in 1..Len(names) |-> StageRegistry[names[k]]]

\* the names of the stages a pipeline run called
Names(ran) == [k \in 1..Len(ran) |-> ran[k].name]

\* the registered stage names of a ruleset's pipeline
StageNames(rs) == IF rs = "solo" THEN SoloStages ELSE SquadStages

StageOrder(rs) ==
    IF rs = "solo" THEN Backbone \o <<"gameover.solo">>
    ELSE Backbone \o <<"collision.squad", "share.squad", "gameover.squad">>

IsPrefix(p, q) == Len(p) <= Len(q) /\ \A k \in 1..Len(p) : p[k] = q[k]

\* C13: the stages a turn runs are, for Solo, movement, health reduction, hazard damage,
\* eat food, place food, eliminate and the solo game-over stage, and for Squad the same
\* six followed by squad collision resurrection, squad attribute sharing and the squad
\* game-over stage: each once, in this order, the game-over stage last; a turn that
\* fails ran the stages up to the failing one in this order.
C13_StageOrder ==
    TurnRan =>
        /\ IsPrefix(StageFunctions(Names(stagesRun)), StageOrder(ruleset))
        /\ ~ret.err => StageFunctions(Names(stagesRun)) = StageOrder(ruleset)
        /\ StageFunctions(StageNames(ruleset)) = StageOrder(ruleset)

\* C13 witness: a squad turn on which resurrection and sharing both ran and changed a
\* snake: a body-collision victim of a squad-mate is alive again and has its health
C13_Witness ==
    /\ op = "CreateNextBoardState"
    /\ ruleset = "squad"
    /\ ~ret.err
    /\ Len(stagesRun) = Len(SquadStages)
    /\ \E i \in 1..Len(entry.Snakes) :
          /\ Alive(entry.Snakes[i])
          /\ \E j \in 1..Len(entry.Snakes) :
                /\ ~Alive(entry.Snakes[j])
                /\ Alive(heap[boardState].Snakes[j])
                /\ heap[boardState].Snakes[j].Health = heap[boardState].Snakes[i].Health
                /\ heap[boardState].Snakes[j].Health # entry.Snakes[j].Health


\* the snakes as the n-th stage of the turn's pipeline left them
SnakesAfter(n) == stagesRun[n].snakes

\* the standard stages eliminated snake i for running into the body of a squad-mate
HitSquadMate(snakes, i) ==
    /\ snakes[i].EliminatedCause = EliminatedByCollision
    /\ \E k \in SquadMates(settings, entry, i) : k # i /\ snakes[k].ID = snakes[i].EliminatedBy

\* the standard stages left snake i eliminated for some other reason
OtherwiseEliminated(snakes, i) == ~Alive(snakes[i]) /\ ~HitSquadMate(snakes, i)

SquadTurnRan ==
    /\ TurnRan
    /\ ruleset = "squad"
    /\ ~ret.err
    /\ Len(stagesRun) = Len(SquadStages)
    /\ settings.SquadSettings.AllowBodyCollisions
    /\ settings.SquadSettings.SharedElimination

C16_EliminatedBeforeTurnStaysEliminated ==
    (TurnRan /\ ruleset = "squad" /\ ~ret.err) =>
        \A i \in 1..Len(entry.Snakes) :
            ~Alive(entry.Snakes[i]) => ~Alive(heap[boardState].Snakes[i])

\* what the code does: only a body-collision victim of a squad-mate comes back, on a turn
\* of a game with AllowBodyCollisions that is not the initialization turn, whenever the
\* collision happened
EliminatedStaysEliminatedButCollisionVictims ==
    (TurnRan /\ ruleset = "squad" /\ ~ret.err) =>
        \A i \in 1..Len(entry.Snakes) :
            (~Alive(entry.Snakes[i]) /\ Alive(heap[boardState].Snakes[i])) =>
                /\ HitSquadMate(entry.Snakes, i)
                /\ settings.SquadSettings.AllowBodyCollisions
                /\ PastInitialisation

----------------------------------------------------------------------------
(* SpecSquadMates: the three squad stages on boards whose squad map leaves snakes out *)

\* snake i of a roster of n: alive, or eliminated by the body of another snake of the
\* roster
MateSnakes(i, n) ==
    {Snake(AllIDs[i], <<Point(i, 0)>>, 10 * i, NotEliminated, "", 0)}
    \cup {Snake(AllIDs[i], <<Point(i, 0)>>, 10 * i, EliminatedByCollision, AllIDs[k], 1) :
            k \in (1..n) \ {i}}

MateBoards(max) ==
    UNION {{BoardState(t, sn, {}, <<>>) :
               sn \in Rosters([i \in 1..n |-> MateSnakes(i, n)], n), t \in {0, 1}}
           : n \in 0..max}

InitSquadMates == \E b \in MateBoards(MaxRoster) : StartWith(b, DefaultSettings(NoSquads), "squad")

\* every squad map over the roster, snakes left out included, with every squad flag on
MateSettings(b) ==
    {DefaultSettings(SquadSettings(m, TRUE, TRUE, TRUE, TRUE)) : m \in SquadMapsOver(RosterIDs(b))}

MatesGameOverSquad ==
    /\ op = "init"
    /\ \E st \in MateSettings(heap[boardState]), mv \in StageMoves :
        CallStage("GameOverSquad", GameOverSquad(heap[boardState], st, mv), st, mv)

MatesResurrectSnakesSquad ==
    /\ op = "init"
    /\ \E st \in MateSettings(heap[boardState]), mv \in StageMoves :
        CallStage("ResurrectSnakesSquad",
                  ResurrectSnakesSquad(heap[boardState], st, mv), st, mv)

MatesShareAttributesSquad ==
    /\ op = "init"
    /\ \E st \in MateSettings(heap[boardState]), mv \in StageMoves :
        CallStage("ShareAttributesSquad",
                  ShareAttributesSquad(heap[boardState], st, mv), st, mv)

NextSquadMates ==
    \/ MatesGameOverSquad
    \/ MatesResurrectSnakesSquad
    \/ MatesShareAttributesSquad

SpecSquadMates == InitSquadMates /\ [][NextSquadMates]_vars

\* the snake has no entry in the squad map
Unassigned(st, snake) == snake.ID \notin DOMAIN st.SquadSettings.squadMap

\* C24: areSnakeIDsOnSameSquad is reflexive, symmetric and transitive over the snake IDs
\* and holds between any two IDs the squad map does not hold; so game-over is reported
\* when every living snake is unassigned, the resurrection stage resurrects an
\* unassigned victim of another unassigned snake's body, and the sharing stage
\* eliminates an unassigned living snake when another unassigned snake is eliminated
C24_SquadMembership ==
    LET m == settings.SquadSettings.squadMap
        IDs == Range(AllIDs)
        before == entry.Snakes
        after == heap[boardState].Snakes
        Free(i) == Unassigned(settings, before[i])
    IN /\ \A x \in IDs : areSnakeIDsOnSameSquad(m, x, x)
       /\ \A x, y \in IDs :
             areSnakeIDsOnSameSquad(m, x, y) => areSnakeIDsOnSameSquad(m, y, x)
       /\ \A x, y, z \in IDs :
             (areSnakeIDsOnSameSquad(m, x, y) /\ areSnakeIDsOnSameSquad(m, y, z))
                 => areSnakeIDsOnSameSquad(m, x, z)
       /\ \A x, y \in IDs \ DOMAIN m : areSnakeIDsOnSameSquad(m, x, y)
       /\ (op = "GameOverSquad" /\ \A i \in Living(entry) : Free(i)) => ret.term
       /\ (op = "ResurrectSnakesSquad" /\ PastInitialisation /\ ~ret.err) =>
             \A i, k \in 1..Len(before) :
                 (/\ i # k
                  /\ Free(i)
                  /\ Free(k)
                  /\ before[i].EliminatedCause = EliminatedByCollision
                  /\ before[i].EliminatedBy = before[k].ID) => Alive(after[i])
       /\ (op = "ShareAttributesSquad" /\ PastInitialisation /\ ~ret.err) =>
             \A i \in Living(entry) :
                 (Free(i) /\ \E k \in 1..Len(before) : Free(k) /\ ~Alive(before[k])) =>
                     after[i].EliminatedCause = EliminatedBySquad

\* game-over is reported for a board on which two snakes are alive, both unassigned,
\* while the squad map holds another snake
C24_Witness ==
    /\ op = "GameOverSquad"
    /\ ret.term
    /\ DOMAIN settings.SquadSettings.squadMap # {}
    /\ Cardinality(Living(entry)) >= 2
    /\ \A i \in Living(entry) : Unassigned(settings, entry.Snakes[i])

----------------------------------------------------------------------------
(* SpecRun: the game loop of the driver, GameState.Run, step by step *)

\* the rosters the game map's SetupBoard hands the loop: all snakes alive and at full
\* health but the last, which is any of TurnSnakes, so that the consistency faults of
\* the squad stages can occur in a run (a game of one snake starts with it alive)
RunRosters(n) ==
    IF n = 0 THEN {<<>>}
    ELSE {[i \in 1..n |-> IF i < n THEN Snake(AllIDs[i], TurnBody(i), SnakeMaxHealth,
                                              NotEliminated, "", 0)
                          ELSE last] :
            last \in {x \in TurnSnakes(n, n) : n > 1 \/ Alive(x)}}

\* the boards the loop starts from, at turn 0
RunBoards(max) ==
    {BoardState(0, snakes, {Point(0, 2)}, <<Point(2, 2)>>) :
        snakes \in UNION {RunRosters(n) : n \in 0..max}}

\* line 149: a game of fewer than two snakes is a solo game
RunRulesets(b) == IF Len(b.Snakes) < 2 THEN {"solo"} ELSE {"solo", "squad"}

\* the --gametype of the game: a game of fewer than two snakes is run by the solo
\* ruleset whatever its game type is
GameTypes(b, rs) ==
    IF rs = "squad" THEN {"squad"}
    ELSE IF Len(b.Snakes) < 2 THEN {"solo", "standard"}
    ELSE {"solo"}

\* nothing has been reported
NoOutcome == [isDraw |-> TRUE, winner |-> "", reported |-> FALSE]

\* the settings of the game: for a squad game everyone on one squad or the first snake
\* against the others, with every squad flag on, or one squad with every flag off
RunSettings(b, rs) ==
    IF rs = "solo" THEN {Settings(15, 1, 14, NoSquads)}
    ELSE {Settings(15, 1, 14, SquadSettings([id \in RosterIDs(b) |-> "red"], f, f, f, f)) :
            f \in BOOLEAN}
         \cup {Settings(15, 1, 14,
                        SquadSettings([id \in RosterIDs(b) |->
                                          IF id = AllIDs[1] THEN "red" ELSE "blue"],
                                      TRUE, TRUE, TRUE, TRUE))}

\* what the seeded generator yields in each turn of the run
RunDraw == [roll |-> FALSE, cell |-> 0]

\* what comes of a request in the run: an answered move, or a failure
RunResponses == {"right", RequestFailed}

\* the orders in which a range over a Go map may yield the members of S
Orders(S) ==
    {q \in [1..Cardinality(S) -> S] : \A i, j \in 1..Cardinality(S) : q[i] = q[j] => i = j}

InitRun ==
    \E b \in RunBoards(MaxRunSnakes), reg \in Registries, seq \in BOOLEAN :
      \E rs \in RunRulesets(b) :
        \E st \in RunSettings(b, rs), gt \in GameTypes(b, rs) :
          /\ heap = [r \in Refs |-> IF r = 1 THEN b ELSE EmptyBoard]
          /\ boardState = 1
          /\ prevState = Nil
          /\ entry = b
          /\ settings = st
          /\ moves = <<>>
          /\ op = "Run"
          /\ ret = NoResult
          /\ ruleset = rs
          /\ snakeStates = InitialSnakeStates(b)
          /\ stagesRun = <<>>
          /\ registry = reg
          /\ driver = [pc |-> "loop",           \* line 215, the condition !v holds
                       sequential |-> seq,      \* --sequential
                       todo |-> <<>>,           \* the living snakes still to be asked
                       go |-> [id \in RosterIDs(b) |-> "none"],  \* the goroutines
                       wg |-> 0,                \* the WaitGroup counter
                       c |-> <<>>,              \* the channel's buffer
                       answers |-> [id \in RosterIDs(b) |-> ""],
                       log |-> <<>>,            \* the steps of the turn so far
                       played |-> 0,            \* turns completed
                       asked |-> "unasked",     \* what IsGameOver said of the board
                       gameType |-> gt,         \* --gametype
                       result |-> NoOutcome,    \* what is reported at the end
                       history |-> <<>>]        \* the set of moves of each turn so far

\* a faulty variant: the loop never looks at v
LoopAlways(v) == TRUE

\* line 215: the loop goes on while v is false
LoopContinues(v) == ~v

\* a faulty variant: the channel has no buffer
Unbuffered(states) == 0

\* line 351: make(chan rules.SnakeMove, len(gameState.snakeStates))
ChannelCapacity(states) == Cardinality(DOMAIN states)

\* a faulty variant: wg.Wait() returns at once
JoinedEarly(wg) == TRUE

\* line 365: wg.Wait() returns when the counter is zero
Joined(wg) == wg = 0

\* a faulty variant: Turn is incremented twice
IncrementTurnTwice(b) == [b EXCEPT !.Turn = b.Turn + 2]

\* line 387: boardState.Turn += 1
IncrementTurn(b) == [b EXCEPT !.Turn = b.Turn + 1]

\* the loop body begins: the range over the snake states will yield the living snakes
\* in some order
RunBeginTurn ==
    /\ driver.pc = "loop"
    /\ driver.played < MaxTurns
    /\ \E order \in Orders(Range(LivingIDs(heap[boardState], 1))) :
         driver' = [driver EXCEPT
                      !.pc = IF Len(order) = 0
                             THEN (IF driver.sequential THEN "record" ELSE "wait")
                             ELSE (IF driver.sequential THEN "sequential" ELSE "spawn"),
                      !.todo = order,
                      !.go = [id \in DOMAIN driver.go |-> "none"],
                      !.wg = 0,
                      !.c = <<>>,
                      !.answers = [id \in DOMAIN driver.answers |-> ""],
                      !.log = <<>>]
    /\ moves' = <<>>
    /\ op' = "RunBeginTurn"
    /\ UNCHANGED <<heap, boardState, prevState, entry, settings, ret, ruleset, snakeStates,
                   stagesRun, registry>>

\* lines 341-348: sequential mode asks the next living snake and appends its move
RunAskNext ==
    /\ driver.pc = "sequential"
    /\ \E answer \in RunResponses :
         LET id == Head(driver.todo) IN
         /\ moves' = Append(moves, [ID |-> id,
                                    Move |-> getMoveForSnake(snakeStates[id], answer)])
         /\ driver' = [driver EXCEPT
                         !.todo = Tail(driver.todo),
                         !.answers[id] = answer,
                         !.pc = IF Len(driver.todo) = 1 THEN "record" ELSE "sequential"]
    /\ op' = "RunAskNext"
    /\ UNCHANGED <<heap, boardState, prevState, entry, settings, ret, ruleset, snakeStates,
                   stagesRun, registry>>

\* lines 353-361: parallel mode adds one to the WaitGroup and starts a goroutine for
\* the next living snake
RunSpawn ==
    /\ driver.pc = "spawn"
    /\ LET id == Head(driver.todo) IN
       driver' = [driver EXCEPT
                    !.todo = Tail(driver.todo),
                    !.wg = driver.wg + 1,
                    !.go[id] = "running",
                    !.pc = IF Len(driver.todo) = 1 THEN "wait" ELSE "spawn"]
    /\ op' = "RunSpawn"
    /\ UNCHANGED <<heap, boardState, prevState, entry, settings, moves, ret, ruleset,
                   snakeStates, stagesRun, registry>>

\* line 359: a goroutine has its snake's move and sends it on the channel, whose buffer
\* holds a move for every snake
GoSend ==
    /\ \E id \in DOMAIN driver.go, answer \in RunResponses :
         /\ driver.go[id] = "running"
         /\ Len(driver.c) < ChannelCapacity(snakeStates)
         /\ driver' = [driver EXCEPT
                         !.go[id] = "sent",
                         !.answers[id] = answer,
                         !.c = Append(driver.c,
                                      [ID |-> id,
                                       Move |-> getMoveForSnake(snakeStates[id], answer)])]
    /\ op' = "GoSend"
    /\ UNCHANGED <<heap, boardState, prevState, entry, settings, moves, ret, ruleset,
                   snakeStates, stagesRun, registry>>

\* line 358: the goroutine returns, and its deferred wg.Done() runs
GoDone ==
    /\ \E id \in DOMAIN driver.go :
         /\ driver.go[id] = "sent"
         /\ driver' = [driver EXCEPT !.go[id] = "exited", !.wg = driver.wg - 1]
    /\ op' = "GoDone"
    /\ UNCHANGED <<heap, boardState, prevState, entry, settings, moves, ret, ruleset,
                   snakeStates, stagesRun, registry>>

\* lines 365-370: wg.Wait() returns, the channel is closed and drained into moves
RunWait ==
    /\ driver.pc = "wait"
    /\ Joined(driver.wg)
    /\ moves' = driver.c
    /\ driver' = [driver EXCEPT !.c = <<>>, !.pc = "record"]
    /\ op' = "RunWait"
    /\ UNCHANGED <<heap, boardState, prevState, entry, settings, ret, ruleset, snakeStates,
                   stagesRun, registry>>

\* lines 372-376: the move of every snake that has one becomes its LastMove
RunRecordLastMoves ==
    /\ driver.pc = "record"
    /\ snakeStates' = [id \in DOMAIN snakeStates |->
                          IF \E k \in 1..Len(moves) : moves[k].ID = id
                          THEN [snakeStates[id] EXCEPT !.LastMove = MoveOf(moves, id, 1)]
                          ELSE snakeStates[id]]
    /\ driver' = [driver EXCEPT !.pc = "pipeline", !.history = Append(driver.history, Range(moves))]
    /\ op' = "RunRecordLastMoves"
    /\ UNCHANGED <<heap, boardState, prevState, entry, settings, moves, ret, ruleset,
                   stagesRun, registry>>

\* lines 377-380: the ruleset computes the next board; an error ends the process inside
\* createNextBoardState, before the loop's boardState is assigned
RunPipeline ==
    /\ driver.pc = "pipeline"
    /\ \E r \in {CreateNextBoardState(heap, ruleset, boardState, settings, moves, RunDraw)} :
         /\ entry' = heap[boardState]
         /\ prevState' = boardState
         /\ heap' = r.heap
         /\ ret' = [term |-> FALSE, err |-> r.err]
         /\ stagesRun' = r.ran
         /\ boardState' = IF r.err THEN boardState ELSE r.nextState
         /\ driver' = [driver EXCEPT
                         !.pc = IF r.err THEN "fatal" ELSE "update",
                         !.log = Append(driver.log, [step |-> "pipeline", board |-> r.nextState])]
    /\ op' = "RunPipeline"
    /\ UNCHANGED <<settings, moves, ruleset, snakeStates, registry>>

\* lines 382-385: the game map updates the board the pipeline returned
RunUpdateBoard ==
    /\ driver.pc = "update"
    /\ heap' = [heap EXCEPT ![boardState] = UpdateBoard(heap[boardState], settings, TRUE)]
    /\ driver' = [driver EXCEPT
                    !.pc = "increment",
                    !.log = Append(driver.log, [step |-> "updater", board |-> boardState])]
    /\ op' = "RunUpdateBoard"
    /\ UNCHANGED <<boardState, prevState, entry, settings, moves, ret, ruleset, snakeStates,
                   stagesRun, registry>>

\* lines 387-389: Turn is incremented and the board is returned to the loop
RunIncrementTurn ==
    /\ driver.pc = "increment"
    /\ heap' = [heap EXCEPT ![boardState] = IncrementTurn(heap[boardState])]
    /\ driver' = [driver EXCEPT
                    !.pc = "gameover",
                    !.played = driver.played + 1,
                    !.asked = "unasked",
                    !.log = Append(driver.log, [step |-> "turn", board |-> boardState])]
    /\ op' = "RunIncrementTurn"
    /\ UNCHANGED <<boardState, prevState, entry, settings, moves, ret, ruleset, snakeStates,
                   stagesRun, registry>>

\* line 215, the post statement and the condition: v, _ = IsGameOver(boardState); !v
RunIsGameOver ==
    /\ driver.pc = "gameover"
    /\ LET v == IsGameOver(ruleset, heap[boardState], settings).term IN
       driver' = [driver EXCEPT
                    !.asked = IF v THEN "over" ELSE "not over",
                    !.pc = IF LoopContinues(v) THEN "loop" ELSE "done"]
    /\ op' = "RunIsGameOver"
    /\ UNCHANGED <<heap, boardState, prevState, entry, settings, moves, ret, ruleset,
                   snakeStates, stagesRun, registry>>

\* a faulty variant: the last snake of the board is the winner
RECURSIVE WinnerIsLastSnake(_, _, _, _)
WinnerIsLastSnake(snakes, i, isDraw, winner) ==
    IF i > Len(snakes) THEN [isDraw |-> isDraw, winner |-> winner, reported |-> TRUE]
    ELSE WinnerIsLastSnake(snakes, i + 1, isDraw /\ ~Alive(snakes[i]), snakes[i].ID)

\* lines 269-276: the loop over the snakes of the final board from index i on; winner is
\* the snake state of a living snake, named here by its ID
RECURSIVE EndOfGame(_, _, _, _)
EndOfGame(snakes, i, isDraw, winner) ==
    IF i > Len(snakes) THEN [isDraw |-> isDraw, winner |-> winner, reported |-> TRUE]
    ELSE IF Alive(snakes[i]) THEN EndOfGame(snakes, i + 1, FALSE, snakes[i].ID)
    ELSE EndOfGame(snakes, i + 1, isDraw, winner)

\* lines 257-287: the loop is left and the result is reported; a game of type solo
\* reports the number of turns only
RunReport ==
    /\ driver.pc = "done"
    /\ driver' = [driver EXCEPT
                    !.pc = "reported",
                    !.result = IF driver.gameType = "solo"
                               THEN [NoOutcome EXCEPT !.reported = TRUE]
                               ELSE EndOfGame(heap[boardState].Snakes, 1, TRUE, "")]
    /\ op' = "RunReport"
    /\ UNCHANGED <<heap, boardState, prevState, entry, settings, moves, ret, ruleset,
                   snakeStates, stagesRun, registry>>

NextRun ==
    \/ RunBeginTurn
    \/ RunAskNext
    \/ RunSpawn
    \/ GoSend
    \/ GoDone
    \/ RunWait
    \/ RunRecordLastMoves
    \/ RunPipeline
    \/ RunUpdateBoard
    \/ RunIncrementTurn
    \/ RunIsGameOver
    \/ RunReport

SpecRun == InitRun /\ [][NextRun]_vars

\* the game loop under a fair scheduler: the driver goes on whenever it can, a request
\* that is under way returns, and a goroutine that can run does
SpecRunFair ==
    /\ InitRun
    /\ [][NextRun]_vars
    /\ WF_vars(RunSpawn)
    /\ WF_vars(GoSend)
    /\ WF_vars(GoDone)
    /\ WF_vars(RunWait)

----------------------------------------------------------------------------
(* Claims about the game loop *)

PipelineRan == op = "RunPipeline"

\* the ruleset names a stage the registry does not hold
ConstructionFails == \E k \in 1..Len(StageNames(ruleset)) : StageNames(ruleset)[k] \notin DOMAIN registry

\* a stage of the last pipeline run returned an error
StageFailed == \E k \in 1..Len(stagesRun) : stagesRun[k].err

\* the process has exited in log.Fatalf: the loop's board is the one the turn began with,
\* no board came back from the ruleset, and neither the updater nor the increment ran
Halted ==
    /\ driver.pc = "fatal"
    /\ heap[boardState] = entry
    /\ driver.log = <<[step |-> "pipeline", board |-> Nil]>>

\* C14: when the pipeline cannot be constructed CreateNextBoardState returns an error
\* and no stage has run; when a stage returns an error CreateNextBoardState returns an
\* error; either way the driver halts with the board the turn began with, and nothing
\* follows
C14_ErrorsAreFatal ==
    /\ [](PipelineRan =>
            /\ ConstructionFails => (ret.err /\ stagesRun = <<>>)
            /\ StageFailed => ret.err
            /\ ret.err => Halted)
    /\ [][driver.pc # "fatal"]_vars

\* the sixth or a later stage of a turn of the loop failed, after earlier stages had
\* changed the working board, and the driver halted
C14_Witness ==
    /\ PipelineRan
    /\ Len(stagesRun) >= 6
    /\ stagesRun[Len(stagesRun)].err
    /\ stagesRun[1].snakes # entry.Snakes
    /\ Halted

\* the driver is requesting moves for the board it holds, or is about to compute the
\* next board from it
Collecting == driver.pc \in {"sequential", "spawn", "wait", "record", "pipeline"}

\* every snake of the board the loop started from is alive and at full health
WellFormedStart ==
    \A i \in 1..Len(heap[boardState].Snakes) :
        /\ Alive(heap[boardState].Snakes[i])
        /\ heap[boardState].Snakes[i].Health = SnakeMaxHealth

\* C18 as stated: moves are requested and a next board is computed only for a board on
\* which IsGameOver has been evaluated and returned false, the turn-0 board included,
\* and once IsGameOver returns true no further turn is played
C18_AskedBeforeEveryTurn ==
    /\ Collecting => driver.asked = "not over"
    /\ driver.asked = "over" => driver.pc \in {"done", "reported"}

\* C18: the first turn is played without IsGameOver having been evaluated on the turn-0
\* board; every later turn is played only for a board on which IsGameOver was
\* evaluated and returned false, and once it returns true the loop is left and no
\* further turn is played
C18_AskedBeforeEveryLaterTurn ==
    /\ [](/\ Collecting =>
               IF driver.played = 0 THEN driver.asked = "unasked"
               ELSE /\ driver.asked = "not over"
                    /\ ~IsGameOver(ruleset, heap[boardState], settings).term
          /\ driver.asked = "over" =>
               /\ driver.pc \in {"done", "reported"}
               /\ IsGameOver(ruleset, heap[boardState], settings).term)
    /\ [][driver.pc \in {"done", "reported"} =>
             /\ driver'.pc = "reported"
             /\ driver'.played = driver.played
             /\ boardState' = boardState
             /\ heap' = heap]_vars

\* a game played two turns, the second after IsGameOver had returned false, and was
\* left when IsGameOver returned true
C18_Witness ==
    /\ driver.pc = "done"
    /\ driver.played = 2
    /\ driver.asked = "over"
    /\ ~ret.err

\* a turn is played for a well-formed turn-0 board on which the game is already over
TurnPlayedOnFinishedBoard ==
    /\ Collecting
    /\ driver.played = 0
    /\ WellFormedStart
    /\ Len(heap[boardState].Snakes) > 0
    /\ IsGameOver(ruleset, heap[boardState], settings).term

\* the IDs of the snakes that are alive on the board the driver holds
LivingNow == Range(LivingIDs(heap[boardState], 1))

\* the move each living snake's request comes to, by getMoveForSnake
MovesAnswered ==
    {[ID |-> id, Move |-> getMoveForSnake(snakeStates[id], driver.answers[id])] :
        id \in LivingNow}

\* mv holds exactly one move of each living snake and none of any other
OneMovePerLivingSnake(mv) ==
    /\ Len(mv) = Cardinality(LivingNow)
    /\ \A id \in LivingNow : \E k \in 1..Len(mv) : mv[k].ID = id
    /\ \A k \in 1..Len(mv) : mv[k].ID \in LivingNow

\* C19: when the driver is about to call CreateNextBoardState in parallel mode, every
\* goroutine it started has sent its move and returned, one was started for each living
\* snake and for no other, and the moves are exactly one for each living snake; in
\* both modes they are the moves the snakes' answers come to
C19_JoinedBeforePipeline ==
    driver.pc = "pipeline" =>
        /\ ~driver.sequential =>
              /\ driver.wg = 0
              /\ driver.c = <<>>
              /\ \A id \in DOMAIN driver.go :
                    driver.go[id] = IF id \in LivingNow THEN "exited" ELSE "none"
        /\ OneMovePerLivingSnake(moves)
        /\ Range(moves) = MovesAnswered

\* in parallel mode the goroutines of two living snakes delivered in the order opposite
\* to the board's, one answered and one request failed, and the driver is about to call
\* CreateNextBoardState
C19_Witness ==
    /\ driver.pc = "pipeline"
    /\ ~driver.sequential
    /\ Len(moves) = 2
    /\ LivingIDs(heap[boardState], 1) = <<moves[2].ID, moves[1].ID>>
    /\ driver.answers[moves[1].ID] = RequestFailed
    /\ driver.answers[moves[2].ID] # RequestFailed

\* the steps of a whole turn, each on the board the pipeline returned
StepsOfTurn(ref) ==
    <<[step |-> "pipeline", board |-> ref],
      [step |-> "updater", board |-> ref],
      [step |-> "turn", board |-> ref]>>

\* a turn has been played to its end and no other has begun
TurnPlayed == driver.pc \in {"gameover", "loop", "done"} /\ driver.played > 0

\* C20: in each played turn the pipeline runs once, then the updater once on the board
\* the pipeline returned, then Turn is incremented by one on that board; Turn is 0 at
\* the start, equals the number of turns played, and never decreases
C20_TurnOrderAndCounter ==
    /\ [](/\ driver.pc # "fatal" => IsPrefix(driver.log, StepsOfTurn(boardState))
          /\ TurnPlayed =>
               /\ driver.log = StepsOfTurn(boardState)
               /\ boardState # prevState
          /\ heap[boardState].Turn = driver.played)
    /\ [][/\ heap'[boardState'].Turn >= heap[boardState].Turn
          /\ driver'.played # driver.played =>
               /\ driver'.played = driver.played + 1
               /\ heap'[boardState'].Turn = heap[boardState].Turn + 1
               /\ driver.log = SubSeq(StepsOfTurn(boardState), 1, 2)]_vars

\* two turns were played to their end: Turn is 2
C20_Witness ==
    /\ TurnPlayed
    /\ driver.played = 2
    /\ heap[boardState].Turn = 2
    /\ heap[boardState].Hazards # entry.Hazards
    /\ driver.log = StepsOfTurn(boardState)

\* the result of a game whose type is not solo has been reported
ResultReported == driver.pc = "reported" /\ driver.gameType # "solo"

\* C21: at the end of a game that is not of type solo a draw is reported exactly when
\* no snake of the final board is NotEliminated; otherwise the winner reported is a
\* snake that is NotEliminated on the final board, the sole survivor when there is one
C21_EndOfGameResult ==
    ResultReported =>
        LET final == heap[boardState]
        IN /\ driver.result.reported
           /\ driver.result.isDraw <=> Living(final) = {}
           /\ ~driver.result.isDraw =>
                 \E i \in Living(final) : driver.result.winner = final.Snakes[i].ID
           /\ \A i \in Living(final) :
                 Living(final) = {i} => driver.result.winner = final.Snakes[i].ID

\* a squad game of two snakes was played and ended with the first snake as the sole
\* survivor and winner
C21_Witness ==
    /\ ResultReported
    /\ driver.played > 0
    /\ ~driver.result.isDraw
    /\ Len(heap[boardState].Snakes) = 2
    /\ Living(heap[boardState]) = {1}
    /\ driver.result.winner = heap[boardState].Snakes[1].ID

\* the move of snake id on the most recent of the first n turns on which it had one,
\* "up" when it had none
RECURSIVE Recorded(_, _, _)
Recorded(history, id, n) ==
    IF n = 0 THEN "up"
    ELSE IF \E m \in history[n] : m.ID = id
         THEN (CHOOSE m \in history[n] : m.ID = id).Move
    ELSE Recorded(history, id, n - 1)

\* C22: the move collected for a living snake whose request failed is the move it had on
\* the most recent earlier turn, "up" when it had none; and when the pipeline is about
\* to run, the LastMove of every snake with a move in this turn is that move
C22_MissingMoveDefault ==
    /\ driver.pc = "record" =>
          \A k \in 1..Len(moves) :
              driver.answers[moves[k].ID] = RequestFailed =>
                  moves[k].Move = Recorded(driver.history, moves[k].ID, Len(driver.history))
    /\ driver.pc = "pipeline" =>
          /\ driver.history[Len(driver.history)] = Range(moves)
          /\ \A k \in 1..Len(moves) : snakeStates[moves[k].ID].LastMove = moves[k].Move

\* in its second turn a snake's request failed, and the move collected for it is the
\* "right" it had answered in the first turn
C22_Witness ==
    /\ driver.pc = "record"
    /\ driver.played = 1
    /\ \E k \in 1..Len(moves) :
          /\ driver.answers[moves[k].ID] = RequestFailed
          /\ [ID |-> moves[k].ID, Move |-> "right"] \in driver.history[1]
          /\ moves[k].Move = "right"

\* the driver is collecting moves in parallel mode
CollectingInParallel == ~driver.sequential /\ driver.pc \in {"spawn", "wait"}

\* C26: in parallel mode a goroutine that has its move finds room in the channel, and
\* under a fair scheduler the collection always comes to its end with the moves drained
C26_CollectionCompletes ==
    /\ [](\A id \in DOMAIN driver.go :
             driver.go[id] = "running" => Len(driver.c) < ChannelCapacity(snakeStates))
    /\ CollectingInParallel ~> driver.pc = "record"

\* the goroutines of all snakes of a game of two or more filled the channel to its
\* capacity, returned, and the moves were drained
C26_Witness ==
    /\ ~driver.sequential
    /\ driver.pc = "record"
    /\ Len(moves) >= 2
    /\ Len(moves) = ChannelCapacity(snakeStates)
    /\ driver.wg = 0
    /\ \A id \in DOMAIN driver.go : driver.go[id] = "exited"

====
